---- MODULE Spec2Model ----
(***************************************************************************)
(* Model of src/main.py: the federated audio downloader                    *)
(* (download_audio_federated), the transcription and note-generation       *)
(* helpers, and the /generate endpoint that chains them.                   *)
(*                                                                         *)
(* A worker is one server process. Inside a worker the /generate handler   *)
(* is an "async def" that never awaits, so a worker runs one job at a      *)
(* time; several workers share the working directory, hence the file       *)
(* temp_audio.mp3, but each has its own module globals.                    *)
(***************************************************************************)
EXTENDS Integers, Sequences, FiniteSets, TLC

\* ---------------------------------------------------------------- bounds
NumCobalt == 2      \* modelled length of COBALT_INSTANCES
NumPiped == 2       \* modelled length of PIPED_INSTANCES
MaxJobs == 2        \* /generate requests the server accepts
NumModels == 2      \* modelled length of MODEL_PRIORITY_LIST
MaxStreams == 2     \* longest audioStreams list in a Piped answer

\* ------------------------------------------------------------- constants
MinValidSize == 1024                     \* size an artifact must exceed

None == "None"
Sizes == {0, MinValidSize, MinValidSize + 1}

\* ------------------------------------------------------------ the inputs
\* The configured provider lists, in source order.
COBALT_CONFIG == [i \in 1..NumCobalt |-> <<"cobalt", i>>]
PIPED_CONFIG == [i \in 1..NumPiped |-> <<"piped", i>>]

Range(s) == {s[i] : i \in DOMAIN s}

\* A shuffle that draws with replacement: entries may repeat or go missing.
ShufflesWithRepeats(lst) == [DOMAIN lst -> Range(lst)]

\* A shuffle that also drops the last entry of the outcome.
ShufflesDroppingOne(lst) ==
    {SubSeq(p, 1, Len(lst) - 1) :
        p \in {q \in [DOMAIN lst -> Range(lst)] :
                 \A i, j \in DOMAIN lst : i # j => q[i] # q[j]}}

\* random.shuffle(lst): every reordering of lst, in place.
Shuffles(lst) ==
    {p \in [DOMAIN lst -> Range(lst)] :
        \A i, j \in DOMAIN lst : i # j => p[i] # p[j]}

\* Source URLs a client may submit: scheme dropped, host, path segments and
\* the "v" query parameter.
Urls ==
    { [host |-> "youtu.be", path |-> <<"abc123XYZ9">>, v |-> None],
      [host |-> "example.com", path |-> <<"video", "1">>, v |-> None] }

\* An address found in an answer: the key it was read from and, for a
\* stream, its position in the list. NoLink is Python's None.
Addr(src, pos) == [src |-> src, pos |-> pos]
NoLink == Addr("None", 0)
IndexError == Addr("IndexError", 0)

\* What POST <base>/api/json can do: raise (timeout, network error), or
\* answer with a status and a body that is JSON or not. In the JSON, "url"
\* and "audio" hold an address or are missing; "picker" is missing, an empty
\* list, or a list whose first entry has a "url" or has none.
CobaltData ==
    [url : BOOLEAN,
     picker : {"absent", "empty", "nourl", "url"},
     audio : BOOLEAN]
NoCobaltData == [url |-> FALSE, picker |-> "absent", audio |-> FALSE]

CobaltResponses ==
    [kind : {"raise"}, status : {0}, json : {FALSE}, data : {NoCobaltData}]
    \cup [kind : {"http"}, status : {200, 403}, json : {FALSE}, data : {NoCobaltData}]
    \cup [kind : {"http"}, status : {200}, json : {TRUE}, data : CobaltData]

\* What the streamed GET of the download address can do: fail before the
\* file is opened (connection error, raise_for_status), fail after size
\* bytes were written, or complete with size bytes.
Transfers ==
    [kind : {"geterror"}, size : {0}]
    \cup [kind : {"partial", "complete"}, size : Sizes]

\* What GET <base>/streams/<id> can carry under "audioStreams": a list of
\* streams, each with a mime type and with or without a "url". A mime type
\* is the sequence of its parts, <<>> being the default "" of a missing key.
\* The "url" of a stream that is not audio is never read: those streams come
\* with one only.
Mimes == {<<>>, <<"audio", "mp4">>, <<"video", "audio">>}
Streams ==
    {st \in [mimeType : Mimes, url : BOOLEAN] :
        st.url \/ st.mimeType = <<"audio", "mp4">>}
StreamLists == UNION {[1..n -> Streams] : n \in 0..MaxStreams}

PipedData == [audioStreams : StreamLists, present : BOOLEAN]
NoPipedData == [audioStreams |-> <<>>, present |-> FALSE]

PipedResponses ==
    [kind : {"raise"}, status : {0}, json : {FALSE}, data : {NoPipedData}]
    \cup [kind : {"http"}, status : {200, 403}, json : {FALSE}, data : {NoPipedData}]
    \cup [kind : {"http"}, status : {200}, json : {TRUE},
          data : {d \in PipedData : d.present \/ d.audioStreams = <<>>}]

\* Outcomes of one Gemini model call, of the Groq call, of the Gemini upload.
ModelOutcomes == {"ok", "429", "404", "err"}
GeminiRuns == [1..NumModels -> ModelOutcomes]
GroqOutcomes == {"ok", "raise"}
UploadOutcomes == {"active", "failed", "raise"}

\* ------------------------------------------------------- pure functions
\* data.get("url") or data.get("picker", [{}])[0].get("url") or data.get("audio")
download_link(data) ==
    IF data.url THEN Addr("url", 0)
    ELSE IF data.picker = "empty" THEN IndexError
    ELSE IF data.picker = "url" THEN Addr("picker", 0)
    ELSE IF data.audio THEN Addr("audio", 0)
    ELSE NoLink

\* s.startswith(prefix)
startswith(s, prefix) ==
    /\ Len(s) >= Len(prefix)
    /\ SubSeq(s, 1, Len(prefix)) = prefix

\* The selection with "audio" in mimeType for mimeType.startswith("audio").
target_stream_containing(audio_streams) ==
    LET hits == {i \in DOMAIN audio_streams :
                    \E k \in DOMAIN audio_streams[i].mimeType :
                        audio_streams[i].mimeType[k] = "audio"}
    IN IF hits = {} THEN 0 ELSE CHOOSE i \in hits : \A j \in hits : i <= j

\* next((s for s in audio_streams if s.get("mimeType", "").startswith("audio")), None):
\* the index of the selected stream, 0 for None.
target_stream(audio_streams) ==
    LET hits == {i \in DOMAIN audio_streams :
                    startswith(audio_streams[i].mimeType, <<"audio">>)}
    IN IF hits = {} THEN 0 ELSE CHOOSE i \in hits : \A j \in hits : i <= j

\* The size check off by one, either way.
is_valid_strict(f) == f.exists /\ f.size > MinValidSize + 1
is_valid_weak(f) == f.exists /\ f.size >= MinValidSize

\* os.path.exists(output_path) and os.path.getsize(output_path) > 1024
is_valid(f) == f.exists /\ f.size > MinValidSize

\* get_video_id(url) is called but defined nowhere in main.py; this is the
\* extractor the specification describes (short link, "v" parameter,
\* "embed" or "v" path prefix, otherwise null).
\* The extractor knowing the "v" path prefix only.
get_video_id_without_embed(u) ==
    IF u.host = "youtu.be" /\ Len(u.path) >= 1 THEN u.path[1]
    ELSE IF u.host = "www.youtube.com" /\ u.v # None THEN u.v
    ELSE IF u.host = "www.youtube.com" /\ Len(u.path) >= 2 /\ u.path[1] = "v"
        THEN u.path[2]
    ELSE None

get_video_id(u) ==
    IF u.host = "youtu.be" /\ Len(u.path) >= 1 THEN u.path[1]
    ELSE IF u.host = "www.youtube.com" /\ u.v # None THEN u.v
    ELSE IF u.host = "www.youtube.com" /\ Len(u.path) >= 2 /\ u.path[1] \in {"embed", "v"}
        THEN u.path[2]
    ELSE None

NoText == [kind |-> "none", model |-> 0]
Apology == [kind |-> "apology", model |-> 0]
Texts ==
    {NoText, Apology, [kind |-> "groq", model |-> 0]}
    \cup [kind : {"gemini"}, model : 1..NumModels]

\* An exception leaving a function, as a value of its own.
Raised == [kind |-> "raise", model |-> 0]

\* "for i, model_name in enumerate(MODEL_PRIORITY_LIST)" from model i on: the
\* value the function ends with and the models it called, in order. A model
\* that answers returns at once; any exception (429, 404, other) continues
\* with the next model; after the last one the apology is returned.
\* The loop re-raising the last model's exception for the apology.
RECURSIVE gemini_loop_reraising(_, _)
gemini_loop_reraising(run, i) ==
    IF i > NumModels THEN [out |-> Raised, calls |-> <<>>]
    ELSE IF run[i] = "ok" THEN [out |-> [kind |-> "gemini", model |-> i], calls |-> <<i>>]
    ELSE [out |-> gemini_loop_reraising(run, i + 1).out,
          calls |-> <<i>> \o gemini_loop_reraising(run, i + 1).calls]

RECURSIVE gemini_loop(_, _)
gemini_loop(run, i) ==
    IF i > NumModels THEN [out |-> Apology, calls |-> <<>>]
    ELSE IF run[i] = "ok" THEN [out |-> [kind |-> "gemini", model |-> i], calls |-> <<i>>]
    ELSE [out |-> gemini_loop(run, i + 1).out,
          calls |-> <<i>> \o gemini_loop(run, i + 1).calls]

\* get_working_gemini_response: the first model of MODEL_PRIORITY_LIST that
\* answers, else the fixed apology string.
get_working_gemini_response(run) == gemini_loop(run, 1).out

\* The try block of transcribe_with_gemini: the upload raises, or the file
\* ends FAILED and ValueError is raised, or the models are asked. upload is
\* the state once the PROCESSING wait is over.
gemini_upload_and_ask(upload, run) ==
    IF upload # "active" THEN Raised ELSE get_working_gemini_response(run)

\* transcribe_with_gemini without its try/except.
transcribe_with_gemini_uncaught(upload, run) == gemini_upload_and_ask(upload, run)

\* transcribe_with_gemini: "except Exception: return None" around that block.
transcribe_with_gemini(upload, run) ==
    IF gemini_upload_and_ask(upload, run) = Raised THEN NoText
    ELSE gemini_upload_and_ask(upload, run)

\* transcribe_audio: what it ends with, and whether it called the backup.
\* Groq first; "except Exception" calls transcribe_with_gemini.
transcribe_audio_run(groq, upload, run) ==
    IF groq = "ok" THEN [out |-> [kind |-> "groq", model |-> 0], backup |-> FALSE]
    ELSE [out |-> transcribe_with_gemini(upload, run), backup |-> TRUE]

\* transcribe_audio: Groq first, the Gemini backup when Groq raises.
transcribe_audio(groq, upload, run) == transcribe_audio_run(groq, upload, run).out

\* "if not transcript": None is falsy, any returned text is truthy.
truthy(t) == t.kind # "none"

\* generate_study_notes(transcript, language)
generate_study_notes(t, run) ==
    IF ~truthy(t) THEN NoText ELSE get_working_gemini_response(run)

\* ------------------------------------------------------------ the state
AllWorkers == {1, 2}

VARIABLES
    workers,            \* the server processes that were launched
    pc,                 \* per worker: where its /generate handler stands
    jobs,               \* per worker: /generate requests accepted so far
    url,                \* per worker: the job's source URL
    COBALT_INSTANCES,   \* per worker: the module-level list, shuffled in place
    PIPED_INSTANCES,    \* per worker: the module-level list, shuffled in place
    idx,                \* per worker: position of the running for loop
    link,               \* per worker: download_link / stream_url once found
    video_id,           \* per worker: the local video_id
    log,                \* per worker: endpoints contacted by the running call
    reached,            \* per worker: some endpoint of the call answered at all
    result,             \* per worker: how download_audio_federated ended
    file,               \* the file at os.getcwd()/temp_audio.mp3
    transcript,         \* per worker: the handler's local transcript
    notes,              \* per worker: the handler's local notes
    response,           \* per worker: what the handler answered
    probe               \* the last application of a helper on its own: input, output

vars ==
    <<workers, pc, jobs, url, COBALT_INSTANCES, PIPED_INSTANCES, idx, link,
      video_id, log, reached, result, file, transcript, notes, response, probe>>

Boot == <<0, 0, <<"boot", 0>>>>
\* The file: its size, the attempt that opened it last (worker, job, instance)
\* and whether that transfer ran to its end.
NoFile == [exists |-> FALSE, size |-> 0, by |-> Boot, whole |-> FALSE]
StaleFile == [exists |-> TRUE, size |-> MinValidSize + 1, by |-> Boot, whole |-> TRUE]

\* output_path: os.path.join(os.getcwd(), output_filename + ".mp3") with the
\* default output_filename, the only one generate_notes_endpoint ever passes.
output_path(w) == "temp_audio.mp3"

NoProbe == [fn |-> "none", arg |-> <<>>, out |-> <<>>]

InitWith(ws) ==
    /\ workers = ws
    /\ pc = [w \in AllWorkers |-> IF w \in ws THEN "idle" ELSE "off"]
    /\ jobs = [w \in AllWorkers |-> 0]
    /\ url = [w \in AllWorkers |-> CHOOSE u \in Urls : u.host = "youtu.be"]
    /\ COBALT_INSTANCES = [w \in AllWorkers |-> COBALT_CONFIG]
    /\ PIPED_INSTANCES = [w \in AllWorkers |-> PIPED_CONFIG]
    /\ idx = [w \in AllWorkers |-> 0]
    /\ link = [w \in AllWorkers |-> NoLink]
    /\ video_id = [w \in AllWorkers |-> None]
    /\ log = [w \in AllWorkers |-> <<>>]
    /\ reached = [w \in AllWorkers |-> FALSE]
    /\ result = [w \in AllWorkers |-> "pending"]
    /\ file \in {NoFile, StaleFile}
    /\ transcript = [w \in AllWorkers |-> NoText]
    /\ notes = [w \in AllWorkers |-> NoText]
    /\ response = [w \in AllWorkers |-> "none"]
    /\ probe = NoProbe

Init == InitWith({1})
InitConc == InitWith(AllWorkers)

\* --------------------------------------------------------- the operations
\* POST /generate arrives: generate_notes_endpoint(url, language) starts and
\* calls download_audio_federated(url).
Submit(w) ==
    /\ pc[w] \in {"idle", "responded"}
    /\ jobs[1] + jobs[2] < MaxJobs
    /\ \E u \in Urls : url' = [url EXCEPT ![w] = u]
    /\ jobs' = [jobs EXCEPT ![w] = @ + 1]
    /\ pc' = [pc EXCEPT ![w] = "download"]
    /\ idx' = [idx EXCEPT ![w] = 0]
    /\ link' = [link EXCEPT ![w] = NoLink]
    /\ video_id' = [video_id EXCEPT ![w] = None]
    /\ log' = [log EXCEPT ![w] = <<>>]
    /\ reached' = [reached EXCEPT ![w] = FALSE]
    /\ result' = [result EXCEPT ![w] = "pending"]
    /\ transcript' = [transcript EXCEPT ![w] = NoText]
    /\ notes' = [notes EXCEPT ![w] = NoText]
    /\ response' = [response EXCEPT ![w] = "none"]
    /\ UNCHANGED <<probe, workers, COBALT_INSTANCES, PIPED_INSTANCES, file>>

\* os.remove(output_path) when os.path.exists(output_path)
removed(f) == IF f.exists THEN NoFile ELSE f

\* download_audio_federated up to the first loop: remove a file left at
\* output_path, shuffle COBALT_INSTANCES.
StartDownload(w) ==
    /\ pc[w] = "download"
    /\ file' = removed(file)
    /\ \E p \in Shuffles(COBALT_INSTANCES[w]) :
           COBALT_INSTANCES' = [COBALT_INSTANCES EXCEPT ![w] = p]
    /\ idx' = [idx EXCEPT ![w] = 1]
    /\ pc' = [pc EXCEPT ![w] = "cobalt"]
    /\ UNCHANGED <<probe, workers, reached, jobs, url, PIPED_INSTANCES, link, video_id, log, result,
                   transcript, notes, response>>

\* The download address one Cobalt answer yields, NoLink when the attempt ends
\* before a download (exception, status other than 200, no address).
cobalt_link(resp) ==
    IF resp.kind = "raise" THEN NoLink
    ELSE IF resp.status # 200 THEN NoLink
    ELSE IF ~resp.json THEN NoLink
    ELSE IF download_link(resp.data) = IndexError THEN NoLink
    ELSE download_link(resp.data)

\* The stream address one Piped answer yields, NoLink likewise (a selected
\* stream without "url" raises KeyError).
piped_link(resp) ==
    IF resp.kind = "raise" THEN NoLink
    ELSE IF resp.status # 200 THEN NoLink
    ELSE IF ~resp.json THEN NoLink
    ELSE IF target_stream(resp.data.audioStreams) = 0 THEN NoLink
    ELSE IF ~resp.data.audioStreams[target_stream(resp.data.audioStreams)].url
        THEN NoLink
    ELSE Addr("audioStreams", target_stream(resp.data.audioStreams))

\* with requests.get(link, stream=True) ... open(output_path, 'wb') ... write:
\* the file at output_path afterwards.
written(f, xfer, who) ==
    IF xfer.kind = "geterror" THEN f
    ELSE [exists |-> TRUE, size |-> xfer.size, by |-> who,
          whole |-> (xfer.kind = "complete")]

\* The size check run also after a transfer that raised.
returns_path_after_error(f, xfer, who) == is_valid(written(f, xfer, who))

\* The attempt reaches "return output_path": the transfer completed and the
\* file passes the size check.
returns_path(f, xfer, who) ==
    /\ xfer.kind = "complete"
    /\ is_valid(written(f, xfer, who))

\* One iteration of "for instance in COBALT_INSTANCES" up to "if
\* download_link": the POST and the probing of the answer.
CobaltRequest(w) ==
    /\ pc[w] = "cobalt"
    /\ idx[w] <= Len(COBALT_INSTANCES[w])
    /\ log' = [log EXCEPT ![w] = Append(@, COBALT_INSTANCES[w][idx[w]])]
    /\ \E resp \in CobaltResponses :
        /\ link' = [link EXCEPT ![w] = cobalt_link(resp)]
        /\ reached' = [reached EXCEPT ![w] = @ \/ resp.kind = "http"]
        /\ IF cobalt_link(resp) = NoLink
           THEN /\ idx' = [idx EXCEPT ![w] = @ + 1]
                /\ pc' = pc
           ELSE /\ idx' = idx
                /\ pc' = [pc EXCEPT ![w] = "cobalt_get"]
    /\ UNCHANGED <<probe, workers, jobs, url, COBALT_INSTANCES, PIPED_INSTANCES, video_id,
                   result, file, transcript, notes, response>>

\* The Cobalt iteration with "break" for "continue": a failed download ends
\* the Cobalt loop.
CobaltDownloadBreaks(w) ==
    /\ pc[w] = "cobalt_get"
    /\ \E xfer \in Transfers :
        LET who == <<w, jobs[w], COBALT_INSTANCES[w][idx[w]]>>
        IN /\ file' = written(file, xfer, who)
           /\ IF returns_path(file, xfer, who)
              THEN /\ result' = [result EXCEPT ![w] = "path"]
                   /\ pc' = [pc EXCEPT ![w] = "transcribe"]
                   /\ idx' = [idx EXCEPT ![w] = 0]
                   /\ link' = [link EXCEPT ![w] = NoLink]
                   /\ video_id' = [video_id EXCEPT ![w] = None]
              ELSE /\ result' = result
                   /\ pc' = [pc EXCEPT ![w] = "cobalt"]
                   /\ idx' = [idx EXCEPT ![w] = Len(COBALT_INSTANCES[w]) + 1]
                   /\ UNCHANGED <<link, video_id>>
    /\ UNCHANGED <<probe, workers, reached, jobs, url, COBALT_INSTANCES, PIPED_INSTANCES, log,
                   transcript, notes, response>>

\* The rest of the iteration: the streamed GET into output_path, the size
\* check, "return output_path" or the next instance.
CobaltDownload(w) ==
    /\ pc[w] = "cobalt_get"
    /\ \E xfer \in Transfers :
        LET who == <<w, jobs[w], COBALT_INSTANCES[w][idx[w]]>>
        IN /\ file' = written(file, xfer, who)
           /\ IF returns_path(file, xfer, who)
              THEN /\ result' = [result EXCEPT ![w] = "path"]
                   /\ pc' = [pc EXCEPT ![w] = "transcribe"]
                   /\ idx' = [idx EXCEPT ![w] = 0]
                   /\ link' = [link EXCEPT ![w] = NoLink]
                   /\ video_id' = [video_id EXCEPT ![w] = None]
              ELSE /\ result' = result
                   /\ pc' = [pc EXCEPT ![w] = "cobalt"]
                   /\ idx' = [idx EXCEPT ![w] = @ + 1]
                   /\ UNCHANGED <<link, video_id>>
    /\ UNCHANGED <<probe, workers, reached, jobs, url, COBALT_INSTANCES, PIPED_INSTANCES, log,
                   transcript, notes, response>>

\* The Cobalt loop ran out: "video_id = get_video_id(video_url)". The name
\* get_video_id is bound nowhere in main.py, so the call raises NameError
\* outside every try; it leaves download_audio_federated and the handler.
CallUnboundGetVideoId(w) ==
    /\ pc[w] = "cobalt"
    /\ idx[w] > Len(COBALT_INSTANCES[w])
    /\ result' = [result EXCEPT ![w] = "NameError"]
    /\ response' = [response EXCEPT ![w] = "500"]
    /\ pc' = [pc EXCEPT ![w] = "responded"]
    /\ idx' = [idx EXCEPT ![w] = 0]
    /\ link' = [link EXCEPT ![w] = NoLink]
    /\ video_id' = [video_id EXCEPT ![w] = None]
    /\ UNCHANGED <<probe, workers, reached, jobs, url, COBALT_INSTANCES, PIPED_INSTANCES, log, file,
                   transcript, notes>>

\* The same lines with get_video_id as the specification describes it:
\* return None without an identifier, else shuffle PIPED_INSTANCES.
CallGetVideoId(w) ==
    /\ pc[w] = "cobalt"
    /\ idx[w] > Len(COBALT_INSTANCES[w])
    /\ IF get_video_id(url[w]) = None
       THEN /\ result' = [result EXCEPT ![w] = "None"]
            /\ response' = [response EXCEPT ![w] = "download_failed"]
            /\ pc' = [pc EXCEPT ![w] = "responded"]
            /\ idx' = [idx EXCEPT ![w] = 0]
            /\ link' = [link EXCEPT ![w] = NoLink]
            /\ UNCHANGED <<PIPED_INSTANCES, video_id>>
       ELSE /\ video_id' = [video_id EXCEPT ![w] = get_video_id(url[w])]
            /\ \E p \in Shuffles(PIPED_INSTANCES[w]) :
                   PIPED_INSTANCES' = [PIPED_INSTANCES EXCEPT ![w] = p]
            /\ idx' = [idx EXCEPT ![w] = 1]
            /\ pc' = [pc EXCEPT ![w] = "piped"]
            /\ UNCHANGED <<result, response, link>>
    /\ UNCHANGED <<probe, workers, reached, jobs, url, COBALT_INSTANCES, log, file, transcript, notes>>

\* One iteration of "for instance in PIPED_INSTANCES" up to "if
\* target_stream" and stream_url: the GET and the choice of the stream.
PipedRequest(w) ==
    /\ pc[w] = "piped"
    /\ idx[w] <= Len(PIPED_INSTANCES[w])
    /\ log' = [log EXCEPT ![w] = Append(@, PIPED_INSTANCES[w][idx[w]])]
    /\ \E resp \in PipedResponses :
        /\ link' = [link EXCEPT ![w] = piped_link(resp)]
        /\ reached' = [reached EXCEPT ![w] = @ \/ resp.kind = "http"]
        /\ IF piped_link(resp) = NoLink
           THEN /\ idx' = [idx EXCEPT ![w] = @ + 1]
                /\ pc' = pc
           ELSE /\ idx' = idx
                /\ pc' = [pc EXCEPT ![w] = "piped_get"]
    /\ UNCHANGED <<probe, workers, jobs, url, COBALT_INSTANCES, PIPED_INSTANCES, video_id,
                   result, file, transcript, notes, response>>

\* The rest of the iteration: the streamed GET into output_path, the size
\* check, "return output_path" or the next instance.
PipedDownload(w) ==
    /\ pc[w] = "piped_get"
    /\ \E xfer \in Transfers :
        LET who == <<w, jobs[w], PIPED_INSTANCES[w][idx[w]]>>
        IN /\ file' = written(file, xfer, who)
           /\ IF returns_path(file, xfer, who)
              THEN /\ result' = [result EXCEPT ![w] = "path"]
                   /\ pc' = [pc EXCEPT ![w] = "transcribe"]
                   /\ idx' = [idx EXCEPT ![w] = 0]
                   /\ link' = [link EXCEPT ![w] = NoLink]
                   /\ video_id' = [video_id EXCEPT ![w] = None]
              ELSE /\ result' = result
                   /\ pc' = [pc EXCEPT ![w] = "piped"]
                   /\ idx' = [idx EXCEPT ![w] = @ + 1]
                   /\ UNCHANGED <<link, video_id>>
    /\ UNCHANGED <<probe, workers, reached, jobs, url, COBALT_INSTANCES, PIPED_INSTANCES, log,
                   transcript, notes, response>>

\* The Piped loop ran out: "return None", and the handler answers the
\* download error.
PipedExhausted(w) ==
    /\ pc[w] = "piped"
    /\ idx[w] > Len(PIPED_INSTANCES[w])
    /\ result' = [result EXCEPT ![w] = "None"]
    /\ response' = [response EXCEPT ![w] = "download_failed"]
    /\ pc' = [pc EXCEPT ![w] = "responded"]
    /\ idx' = [idx EXCEPT ![w] = 0]
    /\ link' = [link EXCEPT ![w] = NoLink]
    /\ video_id' = [video_id EXCEPT ![w] = None]
    /\ UNCHANGED <<probe, workers, reached, jobs, url, COBALT_INSTANCES, PIPED_INSTANCES, log, file,
                   transcript, notes>>

\* generate_notes_endpoint, step 2: transcript = transcribe_audio(audio_file);
\* a falsy transcript returns the error at once. transcribe_audio and
\* generate_study_notes catch every exception of their calls, so the
\* handler's except branch has no step of its own.
Transcribe(w) ==
    /\ pc[w] = "transcribe"
    /\ \E groq \in GroqOutcomes, upload \in UploadOutcomes, run \in GeminiRuns :
        LET t == transcribe_audio(groq, upload, run)
        IN /\ transcript' = [transcript EXCEPT ![w] = t]
           /\ IF truthy(t)
              THEN /\ pc' = [pc EXCEPT ![w] = "generate"]
                   /\ UNCHANGED response
              ELSE /\ pc' = [pc EXCEPT ![w] = "responded"]
                   /\ response' = [response EXCEPT ![w] = "transcription_failed"]
    /\ UNCHANGED <<probe, workers, reached, jobs, url, COBALT_INSTANCES, PIPED_INSTANCES, idx, link,
                   video_id, log, result, file, notes>>

\* generate_notes_endpoint, steps 3 and 4: notes, removal of the audio file,
\* the success answer.
GenerateNotes(w) ==
    /\ pc[w] = "generate"
    /\ \E run \in GeminiRuns :
           notes' = [notes EXCEPT ![w] = generate_study_notes(transcript[w], run)]
    /\ file' = removed(file)
    /\ response' = [response EXCEPT ![w] = "success"]
    /\ pc' = [pc EXCEPT ![w] = "responded"]
    /\ UNCHANGED <<probe, workers, reached, jobs, url, COBALT_INSTANCES, PIPED_INSTANCES, idx, link,
                   video_id, log, result, transcript>>

\* main.py as it is.
Next ==
    \/ \E w \in workers : Submit(w)
    \/ \E w \in workers : StartDownload(w)
    \/ \E w \in workers : CobaltRequest(w)
    \/ \E w \in workers : CobaltDownload(w)
    \/ \E w \in workers : CallUnboundGetVideoId(w)
    \/ \E w \in workers : Transcribe(w)
    \/ \E w \in workers : GenerateNotes(w)

\* main.py with get_video_id supplied as the specification describes it.
NextG ==
    \/ \E w \in workers : Submit(w)
    \/ \E w \in workers : StartDownload(w)
    \/ \E w \in workers : CobaltRequest(w)
    \/ \E w \in workers : CobaltDownload(w)
    \/ \E w \in workers : CallGetVideoId(w)
    \/ \E w \in workers : PipedRequest(w)
    \/ \E w \in workers : PipedDownload(w)
    \/ \E w \in workers : PipedExhausted(w)
    \/ \E w \in workers : Transcribe(w)
    \/ \E w \in workers : GenerateNotes(w)

\* ------------------------------------------- the helpers on their own
\* URL shapes for the identifier extractor: host, path segments, "v".
UrlShapes ==
    [host : {"youtu.be", "www.youtube.com", "example.com"},
     path : {<<>>, <<"abc123XYZ9">>, <<"watch">>, <<"embed", "abc123XYZ9">>,
             <<"v", "abc123XYZ9">>, <<"video", "1">>},
     v : {None, "idFromQuery"}]
    \cup {[host |-> "www.youtube.com", path |-> <<"watch">>, v |-> "abc123XYZ9"]}

machine ==
    <<workers, pc, jobs, url, COBALT_INSTANCES, PIPED_INSTANCES, idx, link,
      video_id, log, reached, result, file, transcript, notes, response>>

\* Lines 116-122 applied to one Cobalt answer.
ProbeCobaltLink ==
    /\ \E resp \in CobaltResponses :
           probe' = [fn |-> "cobalt_link", arg |-> resp, out |-> cobalt_link(resp)]
    /\ UNCHANGED machine

\* Lines 157-167 applied to one Piped answer.
ProbePipedLink ==
    /\ \E resp \in PipedResponses :
           probe' = [fn |-> "piped_link", arg |-> resp, out |-> piped_link(resp)]
    /\ UNCHANGED machine

\* get_video_id applied to one URL.
ProbeGetVideoId ==
    /\ \E u \in UrlShapes :
           probe' = [fn |-> "get_video_id", arg |-> u, out |-> get_video_id(u)]
    /\ UNCHANGED machine

\* get_working_gemini_response under one run of model outcomes.
ProbeGemini ==
    /\ \E run \in GeminiRuns :
           probe' = [fn |-> "get_working_gemini_response", arg |-> run,
                     out |-> gemini_loop(run, 1)]
    /\ UNCHANGED machine

\* transcribe_audio under one outcome of Groq, of the upload and of the models.
ProbeTranscribe ==
    /\ \E groq \in GroqOutcomes, upload \in UploadOutcomes, run \in GeminiRuns :
           probe' = [fn |-> "transcribe_audio",
                     arg |-> [groq |-> groq, upload |-> upload, run |-> run],
                     out |-> transcribe_audio_run(groq, upload, run)]
    /\ UNCHANGED machine

NextFn ==
    \/ ProbeCobaltLink
    \/ ProbePipedLink
    \/ ProbeGetVideoId
    \/ ProbeGemini
    \/ ProbeTranscribe

Spec == Init /\ [][Next]_vars
SpecFn == InitWith({}) /\ [][NextFn]_vars
SpecG == Init /\ [][NextG]_vars
SpecConc == InitConc /\ [][Next]_vars

TypeOK ==
    /\ workers \subseteq AllWorkers
    /\ pc \in [AllWorkers -> {"off", "idle", "download", "cobalt", "cobalt_get",
                              "piped", "piped_get", "transcribe", "generate", "responded"}]
    /\ jobs \in [AllWorkers -> 0..MaxJobs]
    /\ url \in [AllWorkers -> Urls]
    /\ \A w \in AllWorkers : COBALT_INSTANCES[w] \in Shuffles(COBALT_CONFIG)
    /\ \A w \in AllWorkers : PIPED_INSTANCES[w] \in Shuffles(PIPED_CONFIG)
    /\ result \in [AllWorkers -> {"pending", "path", "None", "NameError"}]
    /\ file.exists \in BOOLEAN
    /\ file.size \in Sizes
    /\ reached \in [AllWorkers -> BOOLEAN]
    /\ transcript \in [AllWorkers -> Texts]
    /\ notes \in [AllWorkers -> Texts]

\* ------------------------------------------------------------ the claims
Count(seq, x) == Cardinality({i \in DOMAIN seq : seq[i] = x})
Last(seq) == seq[Len(seq)]
Acquiring(w) == pc[w] \in {"cobalt", "cobalt_get", "piped", "piped_get"}
Ended(w) == pc[w] = "responded"

\* C1: once a Cobalt candidate's transfer has completed with a file larger
\* than the threshold, the call has returned the path, and the endpoints it
\* contacted are exactly the candidates up to that one, in the shuffled order:
\* no later Cobalt candidate and no Piped endpoint.
C1_FirstSuccessStops ==
    \A w \in workers, i \in 1..NumCobalt :
        ( /\ file.exists
          /\ file.whole
          /\ file.size > MinValidSize
          /\ file.by = <<w, jobs[w], <<"cobalt", i>>>> )
        => /\ result[w] = "path"
           /\ pc[w] \in {"transcribe", "generate", "responded"}
           /\ log[w] # <<>>
           /\ Last(log[w]) = <<"cobalt", i>>
           /\ log[w] = SubSeq(COBALT_INSTANCES[w], 1, Len(log[w]))

\* The second Cobalt candidate of the shuffled order succeeded and the call
\* returned.
C1_Witness ==
    \E w \in workers :
        /\ pc[w] = "transcribe"
        /\ result[w] = "path"
        /\ Len(log[w]) = 2
        /\ log[w][2][1] = "cobalt"
        /\ file.whole
        /\ file.by = <<w, jobs[w], log[w][2]>>

\* C2: whenever download_audio_federated returns a path, the file exists and
\* is larger than 1024 bytes.
C2_ReturnedArtifactValid ==
    [][\A w \in workers :
        (result[w] # "path" /\ result'[w] = "path")
        => (file'.exists /\ file'.size > MinValidSize)]_vars

\* A path was returned by a Piped endpoint after every Cobalt candidate and
\* the first Piped candidate had failed.
C2_Witness ==
    \E w \in workers :
        /\ pc[w] = "transcribe"
        /\ result[w] = "path"
        /\ Len(log[w]) = NumCobalt + 2
        /\ file.exists
        /\ file.size = MinValidSize + 1

\* C3: no exception leaves download_audio_federated.
C3_NoExceptionEscapes ==
    \A w \in workers : result[w] # "NameError"

\* C4: when every endpoint contacted by a call was unreachable, the call has
\* returned None and no file is left at the destination.
C4_UnreachableReturnsFailure ==
    \A w \in workers :
        (Ended(w) /\ ~reached[w]) => (result[w] = "None" /\ ~file.exists)

\* C5: no file exists at the destination when a provider attempt starts, nor
\* when the call returns the failure value.
C5_NoFileAtAttemptStart ==
    \A w \in workers :
        ( \/ pc[w] = "cobalt" /\ idx[w] <= Len(COBALT_INSTANCES[w])
          \/ pc[w] = "piped" /\ idx[w] <= Len(PIPED_INSTANCES[w])
          \/ Ended(w) /\ result[w] = "None" )
        => ~file.exists

\* C6: after a candidate's transfer completed with a file at or below the
\* threshold, the call goes on: it is still trying candidates, or it has
\* ended by exhaustion with the failure value; it never ends otherwise.
C6_InvalidFileGoesOn ==
    \A w \in workers, i \in 1..NumCobalt :
        ( /\ file.exists
          /\ file.whole
          /\ file.size <= MinValidSize
          /\ file.by = <<w, jobs[w], <<"cobalt", i>>>> )
        => (Acquiring(w) \/ result[w] = "None")

\* C7: for a source URL without an extractable identifier, a call that ends
\* without an artifact has returned None, having tried every Cobalt endpoint
\* and no Piped endpoint.
C7_NullIdentifierSkipsPiped ==
    \A w \in workers :
        (Ended(w) /\ result[w] # "path" /\ get_video_id(url[w]) = None)
        => /\ result[w] = "None"
           /\ \A i \in 1..NumCobalt : Count(log[w], COBALT_CONFIG[i]) = 1
           /\ \A i \in 1..NumPiped : Count(log[w], PIPED_CONFIG[i]) = 0

\* C8: no endpoint is attempted twice in one call, and when the call returns
\* None every Cobalt endpoint was attempted once and, unless the identifier
\* is null, every Piped endpoint was attempted once.
C8_FailureOnlyAfterExhaustion ==
    \A w \in workers :
        /\ \A i \in DOMAIN log[w] : Count(log[w], log[w][i]) = 1
        /\ result[w] = "None"
           => /\ \A i \in 1..NumCobalt : Count(log[w], COBALT_CONFIG[i]) = 1
              /\ get_video_id(url[w]) # None
                 => \A i \in 1..NumPiped : Count(log[w], PIPED_CONFIG[i]) = 1

\* A call returned None after both families were tried in full.
C8_Witness ==
    \E w \in workers :
        /\ result[w] = "None"
        /\ get_video_id(url[w]) # None
        /\ Len(log[w]) = NumCobalt + NumPiped

\* C9: two jobs whose acquisition is under way, or whose artifact is in use,
\* at the same time have different destination paths, and the artifact
\* returned to a job stays that job's own file while the job uses it.
C9_JobsUseDistinctPaths ==
    /\ \A w1, w2 \in workers :
        ( /\ w1 # w2
          /\ Acquiring(w1) \/ pc[w1] \in {"transcribe", "generate"}
          /\ Acquiring(w2) \/ pc[w2] \in {"transcribe", "generate"} )
        => output_path(w1) # output_path(w2)
    /\ \A w \in workers :
        pc[w] \in {"transcribe", "generate"} => (file.exists /\ file.by[1] = w)

\* C10: once the handler has answered after a successful acquisition, the
\* artifact file no longer exists.
C10_ArtifactRemovedOnExit ==
    \A w \in workers :
        (Ended(w) /\ result[w] = "path") => ~file.exists

\* C11: the handler answers success only with a transcript and notes that a
\* stage really produced: never with the fixed apology of the model fallback
\* standing in for either.
C11_SuccessOnlyWhenAllStagesSucceed ==
    \A w \in workers :
        response[w] = "success"
        => /\ result[w] = "path"
           /\ transcript[w].kind \in {"groq", "gemini"}
           /\ notes[w].kind = "gemini"

\* C12: at every moment each provider list of a process holds exactly the
\* configured endpoints, each once.
IsPermutationOf(lst, config) ==
    /\ Len(lst) = Len(config)
    /\ \A i \in DOMAIN config : Count(lst, config[i]) = 1

C12_ListsKeepConfiguredEndpoints ==
    \A w \in workers :
        /\ IsPermutationOf(COBALT_INSTANCES[w], COBALT_CONFIG)
        /\ IsPermutationOf(PIPED_INSTANCES[w], PIPED_CONFIG)

\* A second request has failed on every endpoint and left both lists in an
\* order other than the configured one.
C12_Witness ==
    \E w \in workers :
        /\ jobs[w] = 2
        /\ Ended(w)
        /\ result[w] = "None"
        /\ Len(log[w]) = NumCobalt + NumPiped
        /\ COBALT_INSTANCES[w] # COBALT_CONFIG
        /\ PIPED_INSTANCES[w] # PIPED_CONFIG

\* ------------------------------------------------------------------ C13
\* The first present value among url, picker[0].url, audio of a Cobalt answer.
first_present(data) ==
    IF data.url THEN Addr("url", 0)
    ELSE IF data.picker = "url" THEN Addr("picker", 0)
    ELSE IF data.audio THEN Addr("audio", 0)
    ELSE NoLink

\* C13: for a Cobalt response with status 200 the download address is the
\* first present value among url, picker[0].url, audio, whatever the earlier
\* fields hold, an empty "picker" list included. Violated: with "picker": []
\* and the address under "audio", line 120 raises IndexError on [][0] and the
\* attempt yields no address.
C13_FirstPresentFieldIsUsed ==
    (probe.fn = "cobalt_link" /\ probe.arg.kind = "http"
        /\ probe.arg.status = 200 /\ probe.arg.json)
    => probe.out = first_present(probe.arg.data)

\* ------------------------------------------------------------------ C14
\* The three supported URL shapes.
ShortLink(u) == u.host = "youtu.be" /\ u.path # <<>>
QueryParameter(u) == u.host = "www.youtube.com" /\ u.v # None
PathSegment(u) ==
    /\ u.host = "www.youtube.com" /\ u.v = None
    /\ Len(u.path) = 2 /\ u.path[1] \in {"embed", "v"}

\* C14: identifier extraction returns the identifier for the short-link,
\* the query-parameter and the path-segment shape, and null for any other
\* shape; https://youtu.be/abc123XYZ9 and
\* https://www.youtube.com/watch?v=abc123XYZ9&t=10 give abc123XYZ9,
\* https://example.com/video/1 gives null.
C14_IdentifierPerShape ==
    probe.fn = "get_video_id"
    => /\ ShortLink(probe.arg) => probe.out = Head(probe.arg.path)
       /\ QueryParameter(probe.arg) => probe.out = probe.arg.v
       /\ PathSegment(probe.arg) => probe.out = probe.arg.path[2]
       /\ ~(ShortLink(probe.arg) \/ QueryParameter(probe.arg) \/ PathSegment(probe.arg))
            => probe.out = None
       /\ probe.arg = [host |-> "youtu.be", path |-> <<"abc123XYZ9">>, v |-> None]
            => probe.out = "abc123XYZ9"
       /\ probe.arg = [host |-> "www.youtube.com", path |-> <<"watch">>, v |-> "abc123XYZ9"]
            => probe.out = "abc123XYZ9"
       /\ probe.arg = [host |-> "example.com", path |-> <<"video", "1">>, v |-> None]
            => probe.out = None

\* The extractor was applied to an embed URL and gave its identifier.
C14_Witness ==
    /\ probe.fn = "get_video_id"
    /\ probe.arg = [host |-> "www.youtube.com", path |-> <<"embed", "abc123XYZ9">>, v |-> None]
    /\ probe.out = "abc123XYZ9"

\* ------------------------------------------------------------------ C15
\* The number of attempts of the call that are under way.
InFlight(w) ==
    IF pc[w] \in {"cobalt", "cobalt_get"} THEN Len(log[w]) - (idx[w] - 1)
    ELSE IF pc[w] \in {"piped", "piped_get"} THEN Len(log[w]) - NumCobalt - (idx[w] - 1)
    ELSE 0

\* C15: within one call no Piped endpoint is contacted, and the identifier is
\* not derived, until every Cobalt candidate has been attempted and has
\* failed; attempts follow one another, at most one being under way per job.
C15_CobaltBeforePiped ==
    \A w \in workers :
        /\ \A i, j \in DOMAIN log[w] :
               (log[w][i][1] = "piped" /\ log[w][j][1] = "cobalt") => j < i
        /\ ( \/ pc[w] \in {"piped", "piped_get"}
             \/ video_id[w] # None
             \/ \E i \in DOMAIN log[w] : log[w][i][1] = "piped" )
           => /\ \A k \in DOMAIN COBALT_CONFIG : Count(log[w], COBALT_CONFIG[k]) = 1
              /\ \A i \in 1..NumCobalt : log[w][i][1] = "cobalt"
        /\ Acquiring(w)
           => /\ InFlight(w) \in {0, 1}
              /\ InFlight(w) = 1 <=> pc[w] \in {"cobalt_get", "piped_get"}
              /\ result[w] = "pending"

\* A Piped download is under way after a Cobalt download had failed.
C15_Witness ==
    \E w \in workers :
        /\ pc[w] = "piped_get"
        /\ Len(log[w]) = NumCobalt + 1
        /\ file.exists /\ file.by[3][1] = "cobalt"

\* ------------------------------------------------------------------ C16
\* The Cobalt endpoints job w has contacted are the first ones of the
\* sequence it iterates, each once.
IteratesItsSequence(w) ==
    /\ Len(log[w]) <= Len(COBALT_INSTANCES[w])
    /\ \A i \in DOMAIN log[w] : log[w][i] = COBALT_INSTANCES[w][i]
    /\ \A i, j \in DOMAIN log[w] : log[w][i] = log[w][j] => i = j

\* C16: while several acquisitions overlap, each iterates a full permutation
\* of the configured endpoints, undisturbed by the others' shuffles, working
\* on a shuffled copy of its own while the configured list is only read.
\* Violated in its last part: random.shuffle reorders the module-level list
\* itself, so the configured list is written by every request.
C16_OverlappingJobsUseOwnCopy ==
    \A w1, w2 \in workers :
        (w1 # w2 /\ Acquiring(w1) /\ Acquiring(w2))
        => /\ IteratesItsSequence(w1)
           /\ COBALT_INSTANCES[w1] = COBALT_CONFIG
           /\ PIPED_INSTANCES[w1] = PIPED_CONFIG

\* ------------------------------------------------------------------ C17
\* The stream's mimeType begins with "audio".
BeginsWithAudio(st) == st.mimeType # <<>> /\ Head(st.mimeType) = "audio"

C18_FirstAnsweringModel ==
    probe.fn = "get_working_gemini_response"
    => LET run == probe.arg
           calls == probe.out.calls
           text == probe.out.out
       IN /\ calls # <<>>
          /\ \A i \in DOMAIN calls : calls[i] = i
          /\ \A i \in DOMAIN calls : i < Len(calls) => run[i] # "ok"
          /\ run[Len(calls)] = "ok"
             => text = [kind |-> "gemini", model |-> Len(calls)]
          /\ run[Len(calls)] # "ok"
             => Len(calls) = NumModels /\ text = Apology
          /\ text.kind \in {"gemini", "apology"}

\* The first model failed for quota and the second answered.
C18_Witness ==
    /\ probe.fn = "get_working_gemini_response"
    /\ probe.arg[1] = "429"
    /\ probe.out = [out |-> [kind |-> "gemini", model |-> 2], calls |-> <<1, 2>>]

\* ------------------------------------------------------------------ C19
\* C19: the artifact download_audio_federated returns was written in full by
\* the transfer of the endpoint the call ended on; bytes an earlier failed
\* attempt or an earlier request left at the destination are never returned.
C19_ReturnedArtifactIsFresh ==
    \A w \in workers :
        (result[w] = "path" /\ pc[w] = "transcribe")
        => /\ file.exists
           /\ file.whole
           /\ file.by = <<w, jobs[w], Last(log[w])>>

\* The call returned the second endpoint's file in its second job, the
\* first endpoint having been contacted before.
C19_Witness ==
    \E w \in workers :
        /\ result[w] = "path" /\ pc[w] = "transcribe"
        /\ jobs[w] = 2
        /\ Len(log[w]) >= 2
        /\ file.by = <<w, 2, Last(log[w])>>

\* ------------------------------------------------------------------ C20
\* C20: transcribe_audio never raises and calls the Gemini backup only when
\* Groq raised; it returns the Groq text when Groq succeeds, otherwise the
\* backup's result, which is None when the upload or the processing fails.
C20_BackupOnlyAfterGroqRaised ==
    probe.fn = "transcribe_audio"
    => /\ probe.out.out # Raised
       /\ probe.out.backup <=> probe.arg.groq # "ok"
       /\ probe.arg.groq = "ok" => probe.out.out = [kind |-> "groq", model |-> 0]
       /\ (probe.arg.groq # "ok" /\ probe.arg.upload # "active")
          => probe.out.out = NoText
       /\ (probe.arg.groq # "ok" /\ probe.arg.upload = "active")
          => probe.out.out \in {Apology} \cup [kind : {"gemini"}, model : 1..NumModels]

\* Groq raised and the upload to the backup failed: None came back.
C20_Witness ==
    /\ probe.fn = "transcribe_audio"
    /\ probe.arg.groq # "ok"
    /\ probe.arg.upload # "active"
    /\ probe.out = [out |-> NoText, backup |-> TRUE]

====
